---------------------------- MODULE Spec2Model ----------------------------
(***************************************************************************)
(* Model of src/bot.py: the cash-register report pipeline (analyze_excel), *)
(* the text renderer (format_sales_report) and the Telegram document       *)
(* handler (handle_document).                                              *)
(*                                                                         *)
(* Conventions.                                                            *)
(*  - A spreadsheet cell is a record [k, s, n]: k = "s" a string cell with *)
(*    text s, k = "n" a numeric cell with value n, k = "e" an empty cell   *)
(*    (pandas NaN).                                                        *)
(*  - Numbers are fixed-point integers in thousandths (1.004 is 1004), so  *)
(*    that rounding to 2 decimals is visible.                              *)
(*  - Strings hold ASCII only: the label "Suma cu TVA fără reducere" is    *)
(*    written "Suma cu TVA fara reducere" and the Russian literals of the  *)
(*    source are transliterated.                                           *)
(***************************************************************************)
EXTENDS Integers, Sequences, FiniteSets, TLC

VARIABLES
    pc,               \* position inside analyze_excel / the renderer
    df_raw,           \* the raw grid read by pd.read_excel(header=None)
    header_row,       \* index (0-based) of the located header row, or -1
    columns,          \* df.columns after header promotion
    rows,             \* df rows after header promotion
    report_date,      \* the extracted report date
    records,          \* cleaned and classified rows (df after lines 96-101)
    result,           \* grouped, rounded and sorted frame, with is_priority
    result_for_save,  \* result without the is_priority column
    text,             \* the short text built by analyze_excel
    txt_report,       \* the full text built by format_sales_report
    error,            \* the exception raised by analyze_excel, if any
    ret,              \* the tuple returned by analyze_excel, if any
    hpc,              \* handle_document: position of each invocation
    upload,           \* handle_document: the update each invocation handles
    input_path,       \* handle_document: local variable input_path
    output_path,      \* handle_document: local variable output_path
    tmp_name,         \* handle_document: tmp.name of the NamedTemporaryFile
    fs,               \* the file system: path -> file or NoFile
    analysis,         \* handle_document: what analyze_excel returned to it
    sent,             \* what each invocation passed to reply_document
    replies           \* kinds of reply_text messages each invocation sent

coreVars == <<pc, df_raw, header_row, columns, rows, report_date, records,
              result, result_for_save, text, txt_report, error, ret>>
botVars  == <<hpc, upload, input_path, output_path, tmp_name, analysis, fs, sent,
              replies>>
vars     == <<pc, df_raw, header_row, columns, rows, report_date, records,
              result, result_for_save, text, txt_report, error, ret,
              hpc, upload, input_path, output_path, tmp_name, analysis, fs, sent,
              replies>>

---------------------------------------------------------------------------
(* Cells *)

Str(x) == [k |-> "s", s |-> x, n |-> 0]
Num(x) == [k |-> "n", s |-> "", n |-> x]
NaN    == [k |-> "e", s |-> "", n |-> 0]

IsStr(c) == c.k = "s"
IsNaN(c) == c.k = "e"

---------------------------------------------------------------------------
(* Python string operations, character by character *)

LowerChar(c) ==
    CASE c = "A" -> "a" [] c = "B" -> "b" [] c = "C" -> "c" [] c = "D" -> "d"
      [] c = "E" -> "e" [] c = "F" -> "f" [] c = "G" -> "g" [] c = "H" -> "h"
      [] c = "I" -> "i" [] c = "J" -> "j" [] c = "K" -> "k" [] c = "L" -> "l"
      [] c = "M" -> "m" [] c = "N" -> "n" [] c = "O" -> "o" [] c = "P" -> "p"
      [] c = "Q" -> "q" [] c = "R" -> "r" [] c = "S" -> "s" [] c = "T" -> "t"
      [] c = "U" -> "u" [] c = "V" -> "v" [] c = "W" -> "w" [] c = "X" -> "x"
      [] c = "Y" -> "y" [] c = "Z" -> "z" [] OTHER -> c

RECURSIVE str_lower(_)
str_lower(s) ==
    IF s = "" THEN ""
    ELSE LowerChar(SubSeq(s, 1, 1)) \o str_lower(SubSeq(s, 2, Len(s)))

IsSpace(c) == c \in {" ", "\t", "\n", "\r"}

RECURSIVE str_lstrip(_)
str_lstrip(s) ==
    IF s # "" /\ IsSpace(SubSeq(s, 1, 1)) THEN str_lstrip(SubSeq(s, 2, Len(s)))
    ELSE s

RECURSIVE str_rstrip(_)
str_rstrip(s) ==
    IF s # "" /\ IsSpace(SubSeq(s, Len(s), Len(s)))
    THEN str_rstrip(SubSeq(s, 1, Len(s) - 1))
    ELSE s

str_strip(s) == str_rstrip(str_lstrip(s))

\* pat occurs in s as a substring
str_find(s, pat) ==
    \E i \in 1..(Len(s) - Len(pat) + 1) : SubSeq(s, i, i + Len(pat) - 1) = pat

\* Series.str.contains(pat, case=False) for a pattern without regex
\* metacharacters: a case-insensitive substring search
str_contains_nocase(s, pat) == str_find(str_lower(s), str_lower(pat))

\* the characters product names are written with, in code-point order
ASCII ==
    " &()-.0123456789ABCDEFGHIJKLMNOPQRSTUVWXYZ_abcdefghijklmnopqrstuvwxyz"

Ord(c) == CHOOSE i \in 1..Len(ASCII) : SubSeq(ASCII, i, i) = c

\* Python's str < str: lexicographic by code point
RECURSIVE str_less(_, _)
str_less(a, b) ==
    IF b = "" THEN FALSE
    ELSE IF a = "" THEN TRUE
    ELSE LET ca == Ord(SubSeq(a, 1, 1))
             cb == Ord(SubSeq(b, 1, 1))
         IN  IF ca # cb THEN ca < cb
             ELSE str_less(SubSeq(a, 2, Len(a)), SubSeq(b, 2, Len(b)))

RECURSIVE str_rep(_, _)
str_rep(c, n) == IF n <= 0 THEN "" ELSE c \o str_rep(c, n - 1)

---------------------------------------------------------------------------
(* Configuration *)

PRIORITY_DRINKS == {
    "Espresso",
    "Double espresso decaffeinated",
    "Chocolate Truffle",
    "Sakura Latte",
    "Matcha Latte",
    "Berry RAF",
    "Kakao Banana",
    "Masala Tea Latte",
    "Cheese & Orange Latte",
    "Double cappuccino vegan",
    "Flat White",
    "Flat White decaffeinated",
    "Flat white vegan",
    "Latte",
    "Latte decaffeinated",
    "Latte vegan",
    "Ice latte",
    "Ice latte decaffeinated",
    "Espresso decaffeinated",
    "Ice latte vegan",
    "Espresso tonic",
    "Espresso tonic decaffeinated",
    "Bumblebee",
    "Doppio(double espresso)",
    "Americano",
    "Americano decaffeinated",
    "Cappuccino",
    "Cappuccino decaffeinated",
    "Cacao",
    "Hot chocolate",
    "Cappuccino vegan",
    "Double Americano",
    "Double cappuccino" }

PRIORITY_DRINKS_LOWER == { str_strip(str_lower(name)) : name \in PRIORITY_DRINKS }

Anchor == "Denumire marfa"
ColQty == "Cantitate"
ColSum == "Suma cu TVA fara reducere"
ColDate == "Data"
required == << Anchor, ColQty, ColSum >>
ExclusionToken == "Punga"
UnknownDate == "neizvestna"


None == [kind |-> "None"]

---------------------------------------------------------------------------
(* Numbers *)

Abs(x) == IF x < 0 THEN -x ELSE x

\* numpy's round(2) of a value given in thousandths: to the nearest
\* hundredth, a tie to the even hundredth
Round2(x) ==
    LET q == x \div 10
        r == x % 10
    IN  IF r < 5 THEN q * 10
        ELSE IF r > 5 THEN (q + 1) * 10
        ELSE IF q % 2 = 0 THEN q * 10 ELSE (q + 1) * 10

\* a numeric cell's value; groupby(...).sum() skips NaN cells
CellNum(c) == IF c.k = "n" THEN c.n ELSE 0

RECURSIVE SumSeq(_)
SumSeq(q) == IF q = <<>> THEN 0 ELSE Head(q) + SumSeq(Tail(q))

\* the rows of q at the positions idx, in order (boolean-mask indexing)
Select(q, idx) ==
    [p \in 1..Cardinality(idx) |->
        q[CHOOSE i \in idx : Cardinality({ j \in idx : j < i }) = p - 1]]

---------------------------------------------------------------------------
(* analyze_excel: header location and promotion *)

\* "Denumire marfa" in df_raw.iloc[i].values
RowHasAnchor(row) == \E j \in 1..Len(row) : row[j] = Str(Anchor)

\* a scan without the break: the last matching row wins
LocateHeader_Last(grid) ==
    IF \E i \in 1..Len(grid) : RowHasAnchor(grid[i])
    THEN (CHOOSE i \in 1..Len(grid) :
             /\ RowHasAnchor(grid[i])
             /\ \A k \in (i + 1)..Len(grid) : ~RowHasAnchor(grid[k])) - 1
    ELSE -1

\* the for loop of lines 66-70: the first matching index (0-based), -1 for None
LocateHeader(grid) ==
    IF \E i \in 1..Len(grid) : RowHasAnchor(grid[i])
    THEN (CHOOSE i \in 1..Len(grid) :
             /\ RowHasAnchor(grid[i])
             /\ \A k \in 1..(i - 1) : ~RowHasAnchor(grid[k])) - 1
    ELSE -1

\* col in df.columns
HasColumn(cols, label) == \E j \in 1..Len(cols) : cols[j] = Str(label)

\* the position of a column looked up by label
ColumnIndex(cols, label) == CHOOSE j \in 1..Len(cols) : cols[j] = Str(label)

\* df[label] as a sequence of cells
Column(cols, rws, label) ==
    [i \in 1..Len(rws) |-> rws[i][ColumnIndex(cols, label)]]

---------------------------------------------------------------------------
(* analyze_excel: the report date *)

IsDigit(c) == c \in {"0", "1", "2", "3", "4", "5", "6", "7", "8", "9"}

AllDigits(s) == s # "" /\ \A i \in 1..Len(s) : IsDigit(SubSeq(s, i, i))

\* the position of the first "." of s, 0 when there is none
FirstDot(s) ==
    IF \E i \in 1..Len(s) : SubSeq(s, i, i) = "."
    THEN CHOOSE i \in 1..Len(s) :
             /\ SubSeq(s, i, i) = "."
             /\ \A k \in 1..(i - 1) : SubSeq(s, k, k) # "."
    ELSE 0

\* s split at its first two dots: <<day, month, year>>, or <<>>
DateParts(s) ==
    LET d1   == FirstDot(s)
        rest == SubSeq(s, d1 + 1, Len(s))
        d2   == FirstDot(rest)
    IN  IF d1 = 0 \/ d2 = 0 THEN <<>>
        ELSE << SubSeq(s, 1, d1 - 1), SubSeq(rest, 1, d2 - 1),
                SubSeq(rest, d2 + 1, Len(rest)) >>

\* pd.to_datetime(x, dayfirst=True) succeeds: the model knows the dotted
\* day.month.year spellings, every other string is unparsable
ParsesAsDate(s) ==
    LET p == DateParts(str_strip(s))
    IN  /\ p # <<>>
        /\ AllDigits(p[1]) /\ Len(p[1]) <= 2
        /\ AllDigits(p[2]) /\ Len(p[2]) <= 2
        /\ AllDigits(p[3]) /\ Len(p[3]) = 4

Pad2(s) == IF Len(s) < 2 THEN "0" \o s ELSE s

\* .strftime('%d.%m.%Y')
FormatDate(s) ==
    LET p == DateParts(str_strip(s))
    IN  Pad2(p[1]) \o "." \o Pad2(p[2]) \o "." \o p[3]

\* lines 81-88
ExtractDate(cols, rws) ==
    IF ~HasColumn(cols, ColDate) THEN UnknownDate
    ELSE LET col       == Column(cols, rws, ColDate)
             non_empty == Select(col, { i \in 1..Len(col) : ~IsNaN(col[i]) })
         IN  IF non_empty = <<>> THEN UnknownDate
             ELSE LET first == non_empty[1]
                  IN  IF first.k = "n" THEN "01.01.1970"
                      ELSE IF ParsesAsDate(first.s) THEN FormatDate(first.s)
                      ELSE str_strip(first.s)

---------------------------------------------------------------------------
(* analyze_excel: validation, cleaning, classification *)

\* any() in place of all(): one required column is enough
MissingColumns_Any(cols) ==
    ~(\E k \in 1..Len(required) : HasColumn(cols, required[k]))

\* not all(col in df.columns for col in required)
MissingColumns(cols) ==
    ~(\A k \in 1..Len(required) : HasColumn(cols, required[k]))

\* the exclusion filter with case=True
KeepName_CaseSensitive(c) ==
    /\ ~IsNaN(c)
    /\ ~(IsStr(c) /\ str_find(c.s, ExclusionToken))

\* the row filter of lines 97-98 on the product-name cell
KeepName(c) ==
    /\ ~IsNaN(c)
    /\ ~(IsStr(c) /\ str_contains_nocase(c.s, ExclusionToken))

\* membership in PRIORITY_DRINKS without normalising the name
IsPriorityName_Exact(name) == name \in PRIORITY_DRINKS

\* line 101: .str.lower().str.strip().isin(PRIORITY_DRINKS_LOWER)
IsPriorityName(name) == str_strip(str_lower(name)) \in PRIORITY_DRINKS_LOWER

\* lines 96-101: the three required columns of the kept rows, classified
CleanRows(cols, rws) ==
    LET iName == ColumnIndex(cols, Anchor)
        iQty  == ColumnIndex(cols, ColQty)
        iSum  == ColumnIndex(cols, ColSum)
        kept  == Select(rws, { i \in 1..Len(rws) : KeepName(rws[i][iName]) })
    IN  [i \in 1..Len(kept) |->
            [name        |-> kept[i][iName].s,
             quantity    |-> CellNum(kept[i][iQty]),
             revenue     |-> CellNum(kept[i][iSum]),
             is_priority |-> IsStr(kept[i][iName]) /\ IsPriorityName(kept[i][iName].s)]]

---------------------------------------------------------------------------
(* analyze_excel: grouping, rounding, sorting *)

\* the distinct keys of groupby("Denumire marfa")
GroupKeys(recs) == { recs[i].name : i \in 1..Len(recs) }

\* "first" in place of "sum": a group keeps its first record's values
Aggregate_FirstRow(recs, key) ==
    LET own == Select(recs, { i \in 1..Len(recs) : recs[i].name = key })
    IN  [name        |-> key,
         Kolichestvo |-> Round2(own[1].quantity),
         Summa       |-> Round2(own[1].revenue),
         is_priority |-> \E i \in 1..Len(own) : own[i].is_priority]

\* one group: sums of both columns and any() of the flag; .round(2) is taken
\* to act on both totals, as numeric columns
Aggregate(recs, key) ==
    LET own == Select(recs, { i \in 1..Len(recs) : recs[i].name = key })
    IN  [name        |-> key,
         Kolichestvo |-> Round2(SumSeq([i \in 1..Len(own) |-> own[i].quantity])),
         Summa       |-> Round2(SumSeq([i \in 1..Len(own) |-> own[i].revenue])),
         is_priority |-> \E i \in 1..Len(own) : own[i].is_priority]

\* groupby sorts the group keys ascending
GroupBy(recs) ==
    LET keys == GroupKeys(recs)
        pos(k) == 1 + Cardinality({ o \in keys : str_less(o, k) })
    IN  [p \in 1..Cardinality(keys) |->
            Aggregate(recs, CHOOSE k \in keys : pos(k) = p)]

\* a sort on 'Summa' alone
SortsBefore_RevenueOnly(a, b) == a.Summa > b.Summa

\* a sorts before b under ['is_priority', 'Summa'], ascending=[False, False]
SortsBefore(a, b) ==
    \/ a.is_priority /\ ~b.is_priority
    \/ a.is_priority = b.is_priority /\ a.Summa > b.Summa

\* sort_values: a stable sort, rows of equal key keep their order
SortValues(frame) ==
    LET n == Len(frame)
        pos(i) == 1 + Cardinality({ j \in 1..n :
                        \/ SortsBefore(frame[j], frame[i])
                        \/ ~SortsBefore(frame[i], frame[j]) /\ j < i })
    IN  [p \in 1..n |-> frame[CHOOSE i \in 1..n : pos(i) = p]]

\* result.drop(columns=['is_priority'])
DropPriority(frame) ==
    [i \in 1..Len(frame) |->
        [name |-> frame[i].name, Kolichestvo |-> frame[i].Kolichestvo,
         Summa |-> frame[i].Summa]]

---------------------------------------------------------------------------
(* analyze_excel: the short text *)

TopRows == 30

\* DataFrame.head(n)
Head_(frame, n) == SubSeq(frame, 1, IF Len(frame) < n THEN Len(frame) ELSE n)

\* the trailer already at exactly 30 rows
ShortText_OffByOne(date, frame) ==
    [date    |-> date,
     table   |-> Head_(frame, TopRows),
     trailer |-> IF Len(frame) >= TopRows THEN << Len(frame) - TopRows >> ELSE <<>>]

\* lines 115-120: the date line, one table line per row of head(30), and the
\* trailer with the count of the rows left out
ShortText(date, frame) ==
    [date    |-> date,
     table   |-> Head_(frame, TopRows),
     trailer |-> IF Len(frame) > TopRows THEN << Len(frame) - TopRows >> ELSE <<>>]

---------------------------------------------------------------------------
(* format_sales_report *)

NameWidth == 40
QtyWidth == 12
RuleWidth == 64

\* str.replace(c, ""): every occurrence of the character c removed
RECURSIVE str_remove(_, _)
str_remove(s, c) ==
    IF s = "" THEN ""
    ELSE IF SubSeq(s, 1, 1) = c THEN str_remove(SubSeq(s, 2, Len(s)), c)
    ELSE SubSeq(s, 1, 1) \o str_remove(SubSeq(s, 2, Len(s)), c)

\* str.replace("  ", " "): one left-to-right pass over non-overlapping pairs
RECURSIVE str_squeeze(_)
str_squeeze(s) ==
    IF Len(s) < 2 THEN s
    ELSE IF SubSeq(s, 1, 2) = "  " THEN " " \o str_squeeze(SubSeq(s, 3, Len(s)))
    ELSE SubSeq(s, 1, 1) \o str_squeeze(SubSeq(s, 2, Len(s)))

DigitChar(d) == SubSeq("0123456789", d + 1, d + 1)

\* str(n) for an integer n
RECURSIVE IntStr(_)
IntStr(n) ==
    IF n < 0 THEN "-" \o IntStr(-n)
    ELSE IF n < 10 THEN DigitChar(n)
    ELSE IntStr(n \div 10) \o DigitChar(n % 10)

\* format(n, ",").replace(",", " ") for n >= 0: digits in groups of three
RECURSIVE GroupedStr(_)
GroupedStr(n) ==
    IF n < 1000 THEN IntStr(n)
    ELSE LET low == n % 1000
         IN  GroupedStr(n \div 1000) \o " " \o DigitChar(low \div 100)
                \o DigitChar((low \div 10) % 10) \o DigitChar(low % 10)

\* the two decimals of a value given in hundredths
Decimals(c) == DigitChar((c \div 10) % 10) \o DigitChar(c % 10)

\* f"{x:.2f}" of a value in thousandths
Fmt2(x) ==
    LET c == Abs(Round2(x)) \div 10
    IN  (IF Round2(x) < 0 THEN "-" ELSE "") \o IntStr(c \div 100) \o "." \o Decimals(c)

\* f"{x:,.2f}".replace(",", " ") of a value in thousandths
FmtMoney(x) ==
    LET c == Abs(Round2(x)) \div 10
    IN  (IF Round2(x) < 0 THEN "-" ELSE "") \o GroupedStr(c \div 100) \o "." \o Decimals(c)

\* int(x) of a value in thousandths: truncation toward zero
IntPart(x) == IF x >= 0 THEN x \div 1000 ELSE -((-x) \div 1000)

\* f"{s:<w}": padded with spaces on the right up to w characters, never cut
PadRight(s, w) == IF Len(s) >= w THEN s ELSE s \o str_rep(" ", w - Len(s))

\* the rename table of lines 265-279, in order
RenameTable == <<
    << "double espresso decaffeinated", "double espresso decaf" >>,
    << "flat white decaffeinated", "flat white decaf" >>,
    << "latte decaffeinated", "latte decaf" >>,
    << "ice latte decaffeinated", "ice latte decaf" >>,
    << "espresso decaffeinated", "espresso decaf" >>,
    << "americano decaffeinated", "americano decaf" >>,
    << "cappuccino decaffeinated", "cappuccino decaf" >>,
    << "doppio(double espresso)", "doppio" >>,
    << "double cappuccino vegan", "double cappuccino vegan" >>,
    << "flat white vegan", "flat white vegan" >>,
    << "latte vegan", "latte vegan" >>,
    << "ice latte vegan", "ice latte vegan" >>,
    << "cappuccino vegan", "cappuccino vegan" >> >>

\* lines 262-284: the display name of a coffee item
CleanName(raw) ==
    LET name    == str_lower(raw)
        renamed == IF \E k \in 1..Len(RenameTable) : RenameTable[k][1] = name
                   THEN RenameTable[CHOOSE k \in 1..Len(RenameTable) :
                                        RenameTable[k][1] = name][2]
                   ELSE name
    IN  str_strip(str_squeeze(str_remove(str_remove(renamed, "("), ")")))

\* " + ".join(parts)
RECURSIVE JoinPlus(_)
JoinPlus(parts) ==
    IF parts = <<>> THEN ""
    ELSE IF Len(parts) = 1 THEN parts[1]
    ELSE parts[1] \o " + " \o JoinPlus(Tail(parts))

\* line 309: one table line
TableLine(row) ==
    PadRight(row.name, NameWidth) \o " " \o PadRight(Fmt2(row.Kolichestvo), QtyWidth)
        \o " " \o Fmt2(row.Summa)

\* lines 242-311: the report as its summary lines and its table lines
FormatSalesReport(date, items) ==
    LET n        == Len(items)
        coffee   == Select(items, { i \in 1..n : IsPriorityName(items[i].name) })
        total_revenue  == SumSeq([i \in 1..n |-> items[i].Summa])
        coffee_revenue == SumSeq([i \in 1..Len(coffee) |-> coffee[i].Summa])
        coffee_count   == SumSeq([i \in 1..Len(coffee) |-> coffee[i].Kolichestvo])
        parts    == [i \in 1..Len(coffee) |->
                       IntStr(IntPart(coffee[i].Kolichestvo)) \o " "
                          \o CleanName(coffee[i].name)]
        composition == JoinPlus(parts)
    IN  [summary |->
            << "Data otcheta: " \o date,
               "Obshchaya vyruchka za den: " \o FmtMoney(total_revenue) \o " lei",
               "Vyruchka ot kofeinykh napitkov: " \o FmtMoney(coffee_revenue) \o " lei",
               "Vsego prodano kofeinykh napitkov: " \o IntStr(IntPart(coffee_count)) \o " sht." >>
            \o (IF composition # "" THEN << "Sostav: " \o composition >> ELSE <<>>)
            \o << "Vyruchka ot ostalnogo: "
                     \o FmtMoney(total_revenue - coffee_revenue) \o " lei",
                  "",
                  "Otchet po prodazham:",
                  PadRight("Denumire marfa", NameWidth) \o " "
                     \o PadRight("Kolichestvo", QtyWidth) \o " " \o "Summa",
                  str_rep("-", RuleWidth) >>,
         table |-> [i \in 1..n |-> TableLine(items[i])]]

---------------------------------------------------------------------------
(* The uploaded spreadsheets the model reads *)

MaxData == 3

MetaRow  == << Str("Raport de casa"), Str("denumire marfa "), NaN, NaN >>
\* a row above the header that already holds the anchor text
StrayRow == << NaN, Str(Anchor), Str("Pret"), NaN >>

Prefixes == { <<>>, <<MetaRow>>, <<StrayRow>>, <<MetaRow, MetaRow>>,
              <<MetaRow, StrayRow>> }

HeaderRows == {
    << Str(Anchor), Str(ColQty), Str(ColSum), Str(ColDate) >>,
    << Str(Anchor), Str(ColQty), Str(ColSum), Str("Cod") >>,
    << Str(Anchor), Str("Cod"), Str(ColSum), Str(ColDate) >>,
    << Str(Anchor), Str(ColSum), Str(ColQty), Str(ColDate) >> }

\* data rows: product name (text or empty), two numeric cells, date cell
\* (text or empty)
DataRows == {
    << Str("Espresso"),     Num(3000), Num(45000), Str("01.02.2024") >>,
    << Str("Croissant"),    Num(2000), Num(30000), Str("1.2.2024") >>,
    << Str("Croissant"),    Num(1004), Num(60000), NaN >>,
    << Str("Americano"),    Num(1004), Num(30004), Str("fara data ") >>,
    << Str("americano "),   Num(1000), Num(60000), Str("01.02.2024") >>,
    << Str("Sac pUNGa"),    Num(1000), Num(99000), Str("01.02.2024") >>,
    << NaN,                 Num(5000), Num(70000), Str("01.02.2024") >> }

\* the sequences over S of length at most n
RECURSIVE SeqsUpTo(_, _)
SeqsUpTo(S, n) ==
    IF n = 0 THEN { <<>> }
    ELSE LET shorter == SeqsUpTo(S, n - 1)
         IN  shorter \cup { Append(q, x) : q \in shorter, x \in S }

Grids ==
    { p \o h \o d : p \in Prefixes,
                    h \in { <<>> } \cup { <<x>> : x \in HeaderRows },
                    d \in SeqsUpTo(DataRows, MaxData) }

Invocations == {1, 2}

BotIdle ==
    /\ hpc = [i \in Invocations |-> "idle"]
    /\ upload = [i \in Invocations |-> None]
    /\ input_path = [i \in Invocations |-> ""]
    /\ output_path = [i \in Invocations |-> ""]
    /\ tmp_name = [i \in Invocations |-> ""]
    /\ analysis = [i \in Invocations |-> None]
    /\ fs = {}
    /\ sent = [i \in Invocations |-> << >>]
    /\ replies = [i \in Invocations |-> << >>]

CoreIdle ==
    /\ header_row = -1
    /\ columns = <<>>
    /\ rows = <<>>
    /\ report_date = UnknownDate
    /\ records = <<>>
    /\ result = <<>>
    /\ result_for_save = <<>>
    /\ text = None
    /\ txt_report = None
    /\ error = None
    /\ ret = None

---------------------------------------------------------------------------
(* analyze_excel as a state machine *)

Init ==
    /\ pc = "start"
    /\ df_raw \in Grids
    /\ CoreIdle
    /\ BotIdle

\* lines 65-73
FindHeader ==
    /\ pc = "start"
    /\ header_row' = LocateHeader(df_raw)
    /\ IF header_row' = -1
       THEN /\ error' = [kind |-> "ValueError", what |-> "HeaderNotFound",
                         found |-> <<>>]
            /\ pc' = "failed"
       ELSE /\ error' = error
            /\ pc' = "located"
    /\ UNCHANGED <<df_raw, columns, rows, report_date, records, result,
                   result_for_save, text, txt_report, ret>>
    /\ UNCHANGED botVars

\* lines 75-88
PromoteHeader ==
    /\ pc = "located"
    /\ columns' = df_raw[header_row + 1]
    /\ rows' = SubSeq(df_raw, header_row + 2, Len(df_raw))
    /\ report_date' = ExtractDate(columns', rows')
    /\ pc' = "promoted"
    /\ UNCHANGED <<df_raw, header_row, records, result, result_for_save, text,
                   txt_report, error, ret>>
    /\ UNCHANGED botVars

\* lines 90-93
ValidateColumns ==
    /\ pc = "promoted"
    /\ IF MissingColumns(columns)
       THEN /\ error' = [kind |-> "ValueError", what |-> "MissingColumns",
                         found |-> columns]
            /\ pc' = "failed"
       ELSE /\ error' = error
            /\ pc' = "validated"
    /\ UNCHANGED <<df_raw, header_row, columns, rows, report_date, records,
                   result, result_for_save, text, txt_report, ret>>
    /\ UNCHANGED botVars

\* lines 95-101
CleanAndClassify ==
    /\ pc = "validated"
    /\ records' = CleanRows(columns, rows)
    /\ pc' = "classified"
    /\ UNCHANGED <<df_raw, header_row, columns, rows, report_date, result,
                   result_for_save, text, txt_report, error, ret>>
    /\ UNCHANGED botVars

\* lines 103-122
AggregateRankRender ==
    /\ pc = "classified"
    /\ result' = SortValues(GroupBy(records))
    /\ result_for_save' = DropPriority(result')
    /\ text' = ShortText(report_date, result_for_save')
    /\ ret' = [kind |-> "tuple", report_date |-> report_date, text |-> text',
               frame |-> result_for_save']
    /\ pc' = "done"
    /\ UNCHANGED <<df_raw, header_row, columns, rows, report_date, records,
                   txt_report, error>>
    /\ UNCHANGED botVars

Next ==
    \/ FindHeader
    \/ PromoteHeader
    \/ ValidateColumns
    \/ CleanAndClassify
    \/ AggregateRankRender

Spec == Init /\ [][Next]_vars

---------------------------------------------------------------------------
(* Properties of analyze_excel *)

\* the cells of a raw row include the exact anchor text
HoldsAnchor(row) ==
    \E j \in 1..Len(row) : row[j].k = "s" /\ row[j].s = "Denumire marfa"

\* name holds "punga" somewhere, whatever the letter case
HoldsToken(name) ==
    \E i \in 1..Len(name) :
        /\ i + 4 <= Len(name)
        /\ str_lower(SubSeq(name, i, i + 4)) = "punga"

\* C1: in the ranked report every priority group precedes every
\* non-priority group, and among groups of equal priority revenue never
\* increases down the list; the returned frame lists the same groups in the
\* same order.
C1_PriorityOrdering ==
    pc = "done" =>
        /\ \A i, j \in 1..Len(result) :
              i < j =>
                /\ result[j].is_priority => result[i].is_priority
                /\ result[i].is_priority = result[j].is_priority
                      => result[i].Summa >= result[j].Summa
        /\ Len(ret.frame) = Len(result)
        /\ \A i \in 1..Len(result) :
              /\ ret.frame[i].name = result[i].name
              /\ ret.frame[i].Summa = result[i].Summa

\* a report where a non-priority group out-earns a priority group listed
\* above it, and two priority groups differ in revenue
C1_Witness ==
    /\ pc = "done"
    /\ \E i, j \in 1..Len(result) :
          /\ i < j
          /\ result[i].is_priority /\ ~result[j].is_priority
          /\ result[j].Summa > result[i].Summa
    /\ \E i, j \in 1..Len(result) :
          /\ i < j
          /\ result[i].is_priority /\ result[j].is_priority
          /\ result[i].Summa > result[j].Summa

\* every cleaned record falls in exactly one group, the one of its exact name
C2_Partition ==
    /\ \A k \in 1..Len(records) :
          Cardinality({ i \in 1..Len(result) : result[i].name = records[k].name }) = 1
    /\ \A i \in 1..Len(result) :
          \E k \in 1..Len(records) : records[k].name = result[i].name

C2_TotalQuantity == SumSeq([i \in 1..Len(result) |-> result[i].Kolichestvo])
C2_RecordQuantity == SumSeq([k \in 1..Len(records) |-> records[k].quantity])

C3_Exclusion ==
    /\ pc \in {"classified", "done"} =>
          \A k \in 1..Len(records) : ~HoldsToken(records[k].name)
    /\ pc = "done" =>
          \A i \in 1..Len(result) :
              LET iName == ColumnIndex(columns, Anchor)
                  same  == Select(rows, { r \in 1..Len(rows) :
                                            rows[r][iName] = Str(result[i].name) })
              IN  /\ ~HoldsToken(result[i].name)
                  /\ result[i].Kolichestvo =
                        Round2(SumSeq([r \in 1..Len(same) |->
                                 same[r][ColumnIndex(columns, ColQty)].n]))
                  /\ result[i].Summa =
                        Round2(SumSeq([r \in 1..Len(same) |->
                                 same[r][ColumnIndex(columns, ColSum)].n]))

\* a finished report over a sheet that held an excluded row in mixed case
C3_Witness ==
    /\ pc = "done"
    /\ Len(result) >= 1
    /\ \E r \in 1..Len(rows) : rows[r][ColumnIndex(columns, Anchor)] = Str("Sac pUNGa")

\* C4: the located header is the first row of the grid holding the anchor
\* text, and analyze_excel fails with "header not found", returning nothing,
\* exactly when no row holds it.
C4_HeaderLocator ==
    pc # "start" =>
        LET absent == \A i \in 1..Len(df_raw) : ~HoldsAnchor(df_raw[i])
        IN  /\ (header_row = -1) <=> absent
            /\ header_row >= 0 =>
                  /\ header_row + 1 <= Len(df_raw)
                  /\ HoldsAnchor(df_raw[header_row + 1])
                  /\ \A k \in 1..header_row : ~HoldsAnchor(df_raw[k])
            /\ (error.kind = "ValueError" /\ error.what = "HeaderNotFound") <=> absent
            /\ absent => pc = "failed" /\ ret = None

\* the anchor occurs in two rows and the first of them is not the top row
C4_Witness ==
    /\ pc # "start"
    /\ header_row >= 1
    /\ \E k \in (header_row + 2)..Len(df_raw) : HoldsAnchor(df_raw[k])

\* C5: once validation has run on a located header, a missing required
\* column means failure with the found header labels and nothing returned;
\* with all three present no such failure is raised, with or without a
\* "Data" column.
C5_MissingColumns ==
    (header_row >= 0 /\ pc \in {"validated", "classified", "done", "failed"}) =>
        LET hdr     == df_raw[header_row + 1]
            has(l)  == \E j \in 1..Len(hdr) : hdr[j].k = "s" /\ hdr[j].s = l
            missing == ~has("Denumire marfa") \/ ~has("Cantitate")
                         \/ ~has("Suma cu TVA fara reducere")
        IN  /\ missing =>
                  /\ pc = "failed"
                  /\ error = [kind |-> "ValueError", what |-> "MissingColumns",
                              found |-> hdr]
                  /\ ret = None
            /\ ~missing =>
                  /\ pc # "failed"
                  /\ error = None
                  /\ pc = "done" => ret # None

\* a failure for a missing column on a sheet whose date had been read
C5_Witness ==
    /\ pc = "failed"
    /\ error.kind = "ValueError" /\ error.what = "MissingColumns"
    /\ HasColumn(columns, ColDate)
    /\ report_date = "01.02.2024"
    /\ ret = None

\* C8: a record is priority exactly when its lowercased, trimmed name is in
\* the priority set; the report has one group per exact name string; a
\* group is priority exactly when one of its own records is.
C8_ClassifyNormalizedGroupExact ==
    pc = "done" =>
        /\ \A k \in 1..Len(records) :
              records[k].is_priority <=>
                  str_strip(str_lower(records[k].name)) \in PRIORITY_DRINKS_LOWER
        /\ \A i, j \in 1..Len(result) : i # j => result[i].name # result[j].name
        /\ { result[i].name : i \in 1..Len(result) }
              = { records[k].name : k \in 1..Len(records) }
        /\ \A i \in 1..Len(result) :
              result[i].is_priority <=>
                  \E k \in 1..Len(records) :
                      records[k].name = result[i].name /\ records[k].is_priority

\* two groups whose names differ only in case and trailing space, both
\* priority
C8_Witness ==
    /\ pc = "done"
    /\ \E i, j \in 1..Len(result) :
          /\ result[i].name = "Americano" /\ result[j].name = "americano "
          /\ result[i].is_priority /\ result[j].is_priority

---------------------------------------------------------------------------
(* The two renderers over ranked reports of every size *)

MaxGroups == 32
MaxPad == 11

LeadNames == { "Espresso", "Doppio(double espresso)", "Latte decaffeinated ",
               "Croissant", "Sandwich cu somon afumat si crema de branza" }

\* a ranked frame of n groups: a leading group of the given name, then
\* non-priority groups of distinct names, the i-th of i + pad characters, in
\* descending revenue
RankedFrame(n, lead, pad) ==
    [i \in 1..n |->
        IF i = 1
        THEN [name |-> lead, Kolichestvo |-> 12990, Summa |-> 1234560]
        ELSE [name |-> str_rep("x", i + pad), Kolichestvo |-> 1000 * i + 500,
              Summa |-> 10 * (n - i + 1)]]

InitReport ==
    /\ pc = "ranked"
    /\ df_raw = <<>>
    /\ header_row = -1
    /\ columns = <<>>
    /\ rows = <<>>
    /\ records = <<>>
    /\ result = <<>>
    /\ \E n \in 0..MaxGroups, lead \in LeadNames, pad \in 0..MaxPad :
          result_for_save = RankedFrame(n, lead, pad)
    /\ report_date \in {UnknownDate, "01.02.2024"}
    /\ text = None
    /\ txt_report = None
    /\ error = None
    /\ ret = None
    /\ BotIdle

\* lines 114-122
RenderShort ==
    /\ pc = "ranked"
    /\ text' = ShortText(report_date, result_for_save)
    /\ ret' = [kind |-> "tuple", report_date |-> report_date, text |-> text',
               frame |-> result_for_save]
    /\ pc' = "short"
    /\ UNCHANGED <<df_raw, header_row, columns, rows, report_date, records,
                   result, result_for_save, txt_report, error>>
    /\ UNCHANGED botVars

\* line 188: format_sales_report(report_date, df_result)
RenderFull ==
    /\ pc = "short"
    /\ txt_report' = FormatSalesReport(ret.report_date, ret.frame)
    /\ pc' = "formatted"
    /\ UNCHANGED <<df_raw, header_row, columns, rows, report_date, records,
                   result, result_for_save, text, error, ret>>
    /\ UNCHANGED botVars

NextReport == RenderShort \/ RenderFull

SpecReport == InitReport /\ [][NextReport]_vars

---------------------------------------------------------------------------
(* handle_document: two invocations interleaved at their await points *)

AUTHORIZED_USER_IDS == {1001}

\* line 58
is_authorized(user_id) == AUTHORIZED_USER_IDS = {} \/ user_id \in AUTHORIZED_USER_IDS

XlsxMime == "application/vnd.openxmlformats-officedocument.spreadsheetml.sheet"

\* str.endswith
str_endswith(s, suffix) ==
    Len(s) >= Len(suffix) /\ SubSeq(s, Len(s) - Len(suffix) + 1, Len(s)) = suffix

\* lines 150-157: valid_mime or valid_ext
ValidDocument(doc) ==
    \/ str_strip(doc.mime_type) = XlsxMime
    \/ str_endswith(str_lower(str_strip(doc.file_name)), ".xlsx")

\* the updates the bot receives
Updates ==
    [user_id   : {1001, 2002},
     file_name : {"kassa.XLSX ", "kassa.xls"},
     mime_type : {XlsxMime, ""}]

ReportDates == {"01.02.2024", "02.02.2024"}

\* Telegram's message limit tested at lines 178 and 191
Limit == 4000

\* NamedTemporaryFile(delete=False, suffix='.xlsx'): a fresh name each call
TempName(i) == "/tmp/tmp" \o IntStr(i) \o ".xlsx"

\* os.path.join(tempfile.gettempdir(), f"Otchet_{report_date}.txt")
OutputPath(date) == "/tmp/" \o "Otchet_" \o date \o ".txt"

\* Path(p).exists()
Exists(p) == \E f \in fs : f.path = p

\* open(p, 'w') and write: an existing file is truncated and keeps its
\* identity, a missing one is created by invocation i
WriteFile(files, p, i, data) ==
    IF \E f \in files : f.path = p
    THEN { IF f.path = p THEN [f EXCEPT !.content = data] ELSE f : f \in files }
    ELSE files \cup { [path |-> p, creator |-> i, content |-> data] }

\* os.unlink(p)
Unlink(files, p) == { f \in files : f.path # p }

\* the content of the file at p
ReadFile(p) == (CHOOSE f \in fs : f.path = p).content

Say(i, msg) == replies' = [replies EXCEPT ![i] = Append(@, msg)]

InitBot ==
    /\ pc = "idle"
    /\ df_raw = <<>>
    /\ CoreIdle
    /\ BotIdle

\* lines 144-165: the authorization and file-type gates, up to the first
\* reply of the try block
Receive(i) ==
    /\ hpc[i] = "idle"
    /\ \E u \in Updates :
          /\ upload' = [upload EXCEPT ![i] = u]
          /\ IF ~is_authorized(u.user_id)
             THEN Say(i, "no_access") /\ hpc' = [hpc EXCEPT ![i] = "done"]
             ELSE IF ~ValidDocument(u)
             THEN Say(i, "send_xlsx") /\ hpc' = [hpc EXCEPT ![i] = "done"]
             ELSE Say(i, "receiving") /\ hpc' = [hpc EXCEPT ![i] = "get_file"]
    /\ UNCHANGED <<input_path, output_path, tmp_name, analysis, fs, sent>>
    /\ UNCHANGED coreVars

\* lines 168-170: get_file answers or raises; then the temporary file is
\* created and the download is started
GetFile(i) ==
    /\ hpc[i] = "get_file"
    /\ \E ok \in BOOLEAN :
          IF ok
          THEN /\ tmp_name' = [tmp_name EXCEPT ![i] = TempName(i)]
               /\ fs' = WriteFile(fs, TempName(i), i, [kind |-> "empty"])
               /\ hpc' = [hpc EXCEPT ![i] = "download"]
          ELSE /\ hpc' = [hpc EXCEPT ![i] = "except"]
               /\ UNCHANGED <<tmp_name, fs>>
    /\ UNCHANGED <<upload, input_path, output_path, analysis, sent, replies>>
    /\ UNCHANGED coreVars

\* lines 170-174: the download ends; on success input_path is set and the
\* next reply is sent, on failure the exception leaves the with block
Download(i) ==
    /\ hpc[i] = "download"
    /\ \E ok \in BOOLEAN :
          IF ok
          THEN /\ fs' = WriteFile(fs, tmp_name[i], i, [kind |-> "xlsx", of |-> i])
               /\ input_path' = [input_path EXCEPT ![i] = tmp_name[i]]
               /\ Say(i, "processing")
               /\ hpc' = [hpc EXCEPT ![i] = "analyze"]
          ELSE /\ hpc' = [hpc EXCEPT ![i] = "except"]
               /\ UNCHANGED <<fs, input_path, replies>>
    /\ UNCHANGED <<upload, output_path, tmp_name, analysis, sent>>
    /\ UNCHANGED coreVars

\* lines 175-185: analyze_excel returns or raises; the short text is sent
\* when it fits
Analyze(i) ==
    /\ hpc[i] = "analyze"
    /\ \/ /\ hpc' = [hpc EXCEPT ![i] = "except_value"]
          /\ UNCHANGED <<analysis, replies>>
       \/ /\ hpc' = [hpc EXCEPT ![i] = "except"]
          /\ UNCHANGED <<analysis, replies>>
       \/ \E date \in ReportDates, text_len \in {Limit - 1, Limit},
             txt_len \in {Limit - 1, Limit} :
             /\ analysis' = [analysis EXCEPT ![i] =
                                [kind |-> "tuple", report_date |-> date,
                                 txt_len |-> txt_len]]
             /\ IF text_len < Limit THEN Say(i, "text_report")
                ELSE Say(i, "too_long")
             /\ hpc' = [hpc EXCEPT ![i] = "format"]
    /\ UNCHANGED <<upload, input_path, output_path, tmp_name, fs, sent>>
    /\ UNCHANGED coreVars

\* lines 188-200: the full report is sent inline when it fits; otherwise it
\* is written to the dated output file and the next reply is sent
Format(i) ==
    /\ hpc[i] = "format"
    /\ IF analysis[i].txt_len < Limit
       THEN /\ Say(i, "txt_report")
            /\ hpc' = [hpc EXCEPT ![i] = "finally"]
            /\ UNCHANGED <<output_path, fs>>
       ELSE /\ output_path' = [output_path EXCEPT ![i] =
                                  OutputPath(analysis[i].report_date)]
            /\ fs' = WriteFile(fs, output_path'[i], i, [kind |-> "txt", of |-> i])
            /\ Say(i, "sending_txt")
            /\ hpc' = [hpc EXCEPT ![i] = "send"]
    /\ UNCHANGED <<upload, input_path, tmp_name, analysis, sent>>
    /\ UNCHANGED coreVars

\* lines 201-205: the output file is opened and handed to reply_document
SendDocument(i) ==
    /\ hpc[i] = "send"
    /\ IF Exists(output_path[i])
       THEN /\ sent' = [sent EXCEPT ![i] = Append(@, ReadFile(output_path[i]))]
            /\ \E ok \in BOOLEAN :
                  hpc' = [hpc EXCEPT ![i] = IF ok THEN "finally" ELSE "except"]
       ELSE /\ hpc' = [hpc EXCEPT ![i] = "except"]
            /\ UNCHANGED sent
    /\ UNCHANGED <<upload, input_path, output_path, tmp_name, analysis, fs, replies>>
    /\ UNCHANGED coreVars

\* lines 207-209
ExceptValueError(i) ==
    /\ hpc[i] = "except_value"
    /\ Say(i, "format_error")
    /\ hpc' = [hpc EXCEPT ![i] = "finally"]
    /\ UNCHANGED <<upload, input_path, output_path, tmp_name, analysis, fs, sent>>
    /\ UNCHANGED coreVars

\* lines 210-215
ExceptException(i) ==
    /\ hpc[i] = "except"
    /\ Say(i, "processing_error")
    /\ hpc' = [hpc EXCEPT ![i] = "finally"]
    /\ UNCHANGED <<upload, input_path, output_path, tmp_name, analysis, fs, sent>>
    /\ UNCHANGED coreVars

\* lines 216-228: both paths are unlinked when set and present
Finally(i) ==
    /\ hpc[i] = "finally"
    /\ LET afterInput == IF input_path[i] # "" /\ Exists(input_path[i])
                         THEN Unlink(fs, input_path[i]) ELSE fs
       IN  fs' = IF output_path[i] # ""
                    /\ \E f \in afterInput : f.path = output_path[i]
                 THEN Unlink(afterInput, output_path[i]) ELSE afterInput
    /\ hpc' = [hpc EXCEPT ![i] = "done"]
    /\ UNCHANGED <<upload, input_path, output_path, tmp_name, analysis, sent, replies>>
    /\ UNCHANGED coreVars

NextBot ==
    \E i \in Invocations :
        \/ Receive(i)
        \/ GetFile(i)
        \/ Download(i)
        \/ Analyze(i)
        \/ Format(i)
        \/ SendDocument(i)
        \/ ExceptValueError(i)
        \/ ExceptException(i)
        \/ Finally(i)

SpecBot == InitBot /\ [][NextBot]_vars

---------------------------------------------------------------------------
(* Properties of handle_document *)

\* C9: when an invocation has returned, no temporary file it created is
\* left on disk.
C9_TempFilesDeleted ==
    \A i \in Invocations :
        hpc[i] = "done" => ~(\E f \in fs : f.creator = i)

\* C10: an invocation hands to reply_document only the report it wrote
\* itself.
C10_SendsOwnReport ==
    \A i \in Invocations :
        \A k \in 1..Len(sent[i]) : sent[i][k] = [kind |-> "txt", of |-> i]

---------------------------------------------------------------------------
(* Properties of the renderers *)

\* C6: the short text lists the first min(30, n) rows of the ranked report
\* in order, and carries the trailer exactly when n > 30, counting n - 30.
C6_ShortText ==
    pc \in {"short", "formatted"} =>
        LET n == Len(result_for_save)
            m == IF n < 30 THEN n ELSE 30
        IN  /\ Len(text.table) = m
            /\ \A i \in 1..m : text.table[i] = result_for_save[i]
            /\ (text.trailer # <<>>) <=> n > 30
            /\ n > 30 => text.trailer = << n - 30 >>
            /\ ret.text = text

\* a report of 32 groups: 30 listed, "2 more"
C6_Witness ==
    /\ pc = "short"
    /\ Len(result_for_save) = 32
    /\ Len(text.table) = 30
    /\ text.trailer = << 2 >>

\* C7: the full report has one table line per group, in ranked order, and
\* in each line the name takes exactly 40 characters, padded when shorter and
\* cut when longer, the quantity following at column 42.
C7_NameFieldExactly40 ==
    pc = "formatted" =>
        /\ Len(txt_report.table) = Len(result_for_save)
        /\ \A i \in 1..Len(result_for_save) :
              LET row   == result_for_save[i]
                  line  == txt_report.table[i]
                  field == IF Len(row.name) >= 40 THEN SubSeq(row.name, 1, 40)
                           ELSE row.name \o str_rep(" ", 40 - Len(row.name))
              IN  /\ SubSeq(line, 1, 40) = field
                  /\ SubSeq(line, 41, Len(line)) =
                        " " \o PadRight(Fmt2(row.Kolichestvo), 12) \o " " \o Fmt2(row.Summa)

=============================================================================
